---- MODULE Spec2Model ----
(***************************************************************************)
(* Model of gazelle's package walker (packages.Walk, selectPackage) and    *)
(* BUILD-file merger (merger.MergeWithExisting, mergeRule, mergeExpr,      *)
(* mergeList, mergeDict, mergeLoad) from go/tools/gazelle/packages/walk.go. *)
(*                                                                         *)
(* Build-file syntax trees are records tagged by T, one tag per bzl node   *)
(* type (StringExpr, ListExpr, DictExpr, KeyValueExpr, CallExpr,           *)
(* BinaryExpr, LiteralExpr); a nil pointer or nil interface is Nil.        *)
(* Comment tokens are sequences of characters so that strings.HasPrefix    *)
(* is computed; other strings are TLA+ strings, ordered for sort.Strings   *)
(* by their byte-wise position in Lexicon.  Layout hints (ForceMultiLine,  *)
(* source positions) are not part of the trees.                            *)
(***************************************************************************)
EXTENDS Integers, Sequences, FiniteSets, TLC

VARIABLES
    pc,          \* position of the operation under way
    genExpr,     \* mergeExpr: the generated expression
    oldExpr,     \* mergeExpr: the existing expression
    mergedExpr,  \* mergeExpr: the returned (expression, error)
    genRule,     \* mergeRule, mergeLoad: the generated call
    oldRule,     \* mergeRule, mergeLoad: the existing call
    mergedRule,  \* mergeRule, mergeLoad: the returned call
    genFile,     \* MergeWithExisting: the generated file
    existing,    \* MergeWithExisting: what is at existingFilePath
    oldFile,     \* MergeWithExisting, mergeLoad: the parsed existing file
    newStmt,     \* MergeWithExisting: the generated statements without a match
    idx,         \* MergeWithExisting: statements of genFile gone through
    ret,         \* MergeWithExisting: the returned file
    merges,      \* MergeWithExisting: calls of mergeRule and mergeLoad so far
    run,         \* which merge of genFile this is (1, or 2: against its own output)
    firstRet,    \* the file the first merge returned
    packageMap,  \* selectPackage: package name -> Package
    pr,          \* packageReader: dir, repoRoot, goPrefix
    selected,    \* selectPackage: what each call returned
    tree,        \* Walk: the directory tree under dir
    todo,        \* Walk: paths filepath.Walk has still to visit, next first
    called,      \* Walk: the directories f was called for, in order
    walkErr      \* Walk: whether filepath.Walk returned an error

exprVars == <<genExpr, oldExpr, mergedExpr>>
ruleVars == <<genRule, oldRule, mergedRule>>
fileVars == <<genFile, existing, newStmt, idx, ret, merges, run, firstRet>>
pkgVars == <<packageMap, pr, selected>>
walkVars == <<tree, todo, called, walkErr>>
vars == <<pc, exprVars, ruleVars, oldFile, fileVars, pkgVars, walkVars>>

-----------------------------------------------------------------------------
(* Bounds of the model *)

\* longest list of the enumerated list expressions
MaxList == 2
\* most entries of the enumerated select dictionaries
MaxDict == 2

-----------------------------------------------------------------------------
(* Strings and comments *)

\* const keep
keep == <<"#", " ", "k", "e", "e", "p">>
\* const gazelleIgnore
gazelleIgnore ==
    <<"#", " ", "g", "a", "z", "e", "l", "l", "e", ":", "i", "g", "n", "o", "r", "e">>

\* strings.HasPrefix
HasPrefix(s, prefix) ==
    /\ Len(s) >= Len(prefix)
    /\ SubSeq(s, 1, Len(prefix)) = prefix

\* the strings that get sorted, in Go's byte-wise string order
Lexicon ==
    << "", "//cfg:a", "//conditions:default", "//os:linux",
       "go_binary", "go_library", "go_test" >>

Rank(s) == CHOOSE i \in 1..Len(Lexicon) : Lexicon[i] = s

\* Go's < on strings
StrLess(a, b) == Rank(a) < Rank(b)

RECURSIVE Insert(_, _)
Insert(sorted, s) ==
    IF sorted = <<>> THEN <<s>>
    ELSE IF StrLess(s, Head(sorted)) THEN <<s>> \o sorted
    ELSE <<Head(sorted)>> \o Insert(Tail(sorted), s)

RECURSIVE SortStrings(_)
\* sort.Strings
SortStrings(keys) ==
    IF keys = <<>> THEN <<>>
    ELSE Insert(SortStrings(SubSeq(keys, 1, Len(keys) - 1)), keys[Len(keys)])

-----------------------------------------------------------------------------
(* The bzl syntax tree *)

Nil == [T |-> "nil"]

StringExpr(value, suffix) == [T |-> "string", Value |-> value, Suffix |-> suffix]
ListExpr(list) == [T |-> "list", List |-> list, Suffix |-> <<>>]
KeyValueExpr(key, value) == [T |-> "keyvalue", Key |-> key, Value |-> value]
DictExpr(list) == [T |-> "dict", List |-> list]
LiteralExpr(token) == [T |-> "literal", Token |-> token]
BinaryExpr(x, op, y) == [T |-> "binary", X |-> x, Op |-> op, Y |-> y, Before |-> <<>>]
CallExpr(x, list) ==
    [T |-> "call", X |-> x, List |-> list, Before |-> <<>>, After |-> <<>>]

\* e.Comment().Suffix
SuffixOf(e) == IF "Suffix" \in DOMAIN e THEN e.Suffix ELSE <<>>

\* func stringValue
stringValue(e) == IF e.T = "string" THEN e.Value ELSE ""

\* func shouldKeep
shouldKeep(e) ==
    /\ Len(SuffixOf(e)) > 0
    /\ HasPrefix(SuffixOf(e)[1], keep)

-----------------------------------------------------------------------------
(* The expression merger *)

Matched(l, d) == [list |-> l, dict |-> d, err |-> FALSE]
NotMatched == [list |-> Nil, dict |-> Nil, err |-> TRUE]

\* func exprListAndDict
exprListAndDict(expr) ==
    IF expr = Nil THEN Matched(Nil, Nil)
    ELSE IF expr.T = "list" THEN Matched(expr, Nil)
    ELSE IF expr.T = "call" THEN
        IF /\ expr.X.T = "literal"
           /\ expr.X.Token = "select"
           /\ Len(expr.List) = 1
           /\ expr.List[1].T = "dict"
        THEN Matched(Nil, expr.List[1])
        ELSE NotMatched
    ELSE IF expr.T = "binary" THEN
        IF expr.Op # "+" THEN NotMatched
        ELSE IF expr.X.T # "list" THEN NotMatched
        ELSE IF expr.Y.T # "call" \/ Len(expr.Y.List) # 1 THEN NotMatched
        ELSE IF expr.Y.X.T # "literal" \/ expr.Y.X.Token # "select" THEN NotMatched
        ELSE IF expr.Y.List[1].T # "dict" THEN NotMatched
        ELSE Matched(expr.X, expr.Y.List[1])
    ELSE NotMatched

\* mergeList, first loop: the old elements with "# keep", in order
keptElements(old) == SelectSeq(old.List, shouldKeep)

\* mergeList, the kept map: the non-empty string values of the kept elements
keptValues(old) ==
    {stringValue(keptElements(old)[i]) : i \in 1..Len(keptElements(old))} \ {""}

\* a mergeList that returns the generated elements alone
mergeListDropKept(gen, old) ==
    IF old = Nil THEN gen
    ELSE LET g == IF gen = Nil THEN <<>> ELSE gen.List
         IN IF Len(g) = 0 THEN Nil ELSE ListExpr(g)

\* func mergeList
mergeList(gen, old) ==
    IF old = Nil THEN gen
    ELSE LET g == IF gen = Nil THEN ListExpr(<<>>) ELSE gen
             NotKept(v) == stringValue(v) \notin keptValues(old)
             merged == keptElements(old) \o SelectSeq(g.List, NotKept)
         IN IF Len(merged) = 0 THEN Nil ELSE ListExpr(merged)

\* func dictEntryKeyValue: whether e is a string key with a list value
dictEntryOK(e) ==
    /\ e.T = "keyvalue"
    /\ e.Key.T = "string"
    /\ e.Value.T = "list"

\* type dictEntry
dictEntry(key, oldValue, genValue) ==
    [key |-> key, oldValue |-> oldValue, genValue |-> genValue]

\* position of key among the entries (entryMap lookup), 0 when absent
entryIndex(entries, key) ==
    IF \E i \in 1..Len(entries) : entries[i].key = key
    THEN CHOOSE i \in 1..Len(entries) : entries[i].key = key
    ELSE 0

RECURSIVE addGenEntries(_, _)
\* mergeDict, second loop: record each generated value under its key
addGenEntries(entries, genList) ==
    IF genList = <<>> THEN entries
    ELSE LET k == Head(genList).Key.Value
             v == Head(genList).Value
             i == entryIndex(entries, k)
         IN IF i = 0
            THEN addGenEntries(Append(entries, dictEntry(k, Nil, v)), Tail(genList))
            ELSE addGenEntries([entries EXCEPT ![i].genValue = v], Tail(genList))

DefaultKey == "//conditions:default"

\* mergeDict, third loop: the merged value of one entry
mergedValue(e) ==
    LET m == mergeList(e.genValue, e.oldValue)
    IN IF e.key = DefaultKey /\ m = Nil THEN ListExpr(<<>>) ELSE m

Returned(e) == [expr |-> e, err |-> FALSE]
Failed == [expr |-> Nil, err |-> TRUE]

\* a mergeDict that leaves the cases in the order they were entered
mergeDictUnsorted(gen, old) ==
    IF old = Nil THEN Returned(gen)
    ELSE LET g == IF gen = Nil THEN DictExpr(<<>>) ELSE gen
         IN IF \/ \E i \in 1..Len(old.List) : ~dictEntryOK(old.List[i])
               \/ \E i, j \in 1..Len(old.List) :
                      i < j /\ old.List[i].Key.Value = old.List[j].Key.Value
               \/ \E i \in 1..Len(g.List) : ~dictEntryOK(g.List[i])
            THEN Failed
            ELSE LET oldEntries ==
                         [i \in 1..Len(old.List) |->
                             dictEntry(old.List[i].Key.Value, old.List[i].Value, Nil)]
                     entries == addGenEntries(oldEntries, g.List)
                     IsKey(e) == e.key # DefaultKey /\ mergedValue(e) # Nil
                     named == SelectSeq(entries, IsKey)
                     IsDefault(e) == e.key = DefaultKey
                     defaults == SelectSeq(entries, IsDefault)
                     haveDefault == Len(defaults) > 0
                 IN IF /\ Len(named) = 0
                       /\ (~haveDefault \/ Len(mergedValue(defaults[1]).List) = 0)
                    THEN Returned(Nil)
                    ELSE Returned(DictExpr(
                             [i \in 1..Len(named) + Len(defaults) |->
                                 LET e == (named \o defaults)[i]
                                 IN KeyValueExpr(StringExpr(e.key, <<>>), mergedValue(e))]))

\* func mergeDict
mergeDict(gen, old) ==
    IF old = Nil THEN Returned(gen)
    ELSE LET g == IF gen = Nil THEN DictExpr(<<>>) ELSE gen
         IN IF \/ \E i \in 1..Len(old.List) : ~dictEntryOK(old.List[i])
               \/ \E i, j \in 1..Len(old.List) :
                      i < j /\ old.List[i].Key.Value = old.List[j].Key.Value
               \/ \E i \in 1..Len(g.List) : ~dictEntryOK(g.List[i])
            THEN Failed
            ELSE LET oldEntries ==
                         [i \in 1..Len(old.List) |->
                             dictEntry(old.List[i].Key.Value, old.List[i].Value, Nil)]
                     entries == addGenEntries(oldEntries, g.List)
                     haveDefault == entryIndex(entries, DefaultKey) # 0
                     IsKey(e) == e.key # DefaultKey /\ mergedValue(e) # Nil
                     named == SelectSeq(entries, IsKey)
                     keys0 == SortStrings([i \in 1..Len(named) |-> named[i].key])
                     keys == IF haveDefault THEN Append(keys0, DefaultKey) ELSE keys0
                 IN IF /\ Len(keys0) = 0
                       /\ \/ ~haveDefault
                          \/ Len(mergedValue(
                                 entries[entryIndex(entries, DefaultKey)]).List) = 0
                    THEN Returned(Nil)
                    ELSE Returned(DictExpr(
                             [i \in 1..Len(keys) |->
                                 LET e == entries[entryIndex(entries, keys[i])]
                                 IN KeyValueExpr(StringExpr(e.key, <<>>), mergedValue(e))]))

\* select(dict)
SelectCall(dict) == CallExpr(LiteralExpr("select"), <<dict>>)

\* a mergeExpr that puts the select to the left of the list
mergeExprSelectFirst(gen, old) ==
    IF gen.T = "string"
    THEN IF shouldKeep(old) THEN Returned(old) ELSE Returned(gen)
    ELSE LET g == exprListAndDict(gen)
             o == exprListAndDict(old)
         IN IF g.err \/ o.err THEN Failed
            ELSE LET mergedList == mergeList(g.list, o.list)
                     mergedDict == mergeDict(g.dict, o.dict)
                     mergedSelect ==
                         IF mergedDict.expr # Nil THEN SelectCall(mergedDict.expr) ELSE Nil
                 IN IF mergedDict.err THEN Failed
                    ELSE IF mergedList = Nil THEN Returned(mergedSelect)
                    ELSE IF mergedSelect = Nil THEN Returned(mergedList)
                    ELSE Returned(BinaryExpr(mergedSelect, "+", mergedList))

\* func mergeExpr
mergeExpr(gen, old) ==
    IF gen.T = "string"
    THEN IF shouldKeep(old) THEN Returned(old) ELSE Returned(gen)
    ELSE LET g == exprListAndDict(gen)
             o == exprListAndDict(old)
         IN IF g.err \/ o.err THEN Failed
            ELSE LET mergedList == mergeList(g.list, o.list)
                     mergedDict == mergeDict(g.dict, o.dict)
                     mergedSelect ==
                         IF mergedDict.expr # Nil THEN SelectCall(mergedDict.expr) ELSE Nil
                 IN IF mergedDict.err THEN Failed
                    ELSE IF mergedList = Nil THEN Returned(mergedSelect)
                    ELSE IF mergedSelect = Nil THEN Returned(mergedList)
                    ELSE Returned(BinaryExpr(mergedList, "+", mergedSelect))

-----------------------------------------------------------------------------
(* bzl.Rule: the view of a call as a rule *)

\* an argument of the form key = value
IsAttr(a) == a.T = "binary" /\ a.Op = "="

IsNamedAttr(a) == IsAttr(a) /\ a.X.T = "literal"

\* bzl.Rule.AttrKeys
AttrKeys(call) ==
    LET attrs == SelectSeq(call.List, IsNamedAttr)
    IN [i \in 1..Len(attrs) |-> attrs[i].X.Token]

\* bzl.Rule.AttrDefn
AttrDefn(call, k) ==
    LET Is(a) == IsNamedAttr(a) /\ a.X.Token = k
        defs == SelectSeq(call.List, Is)
    IN IF defs = <<>> THEN Nil ELSE defs[1]

\* bzl.Rule.Attr
Attr(call, k) == IF AttrDefn(call, k) = Nil THEN Nil ELSE AttrDefn(call, k).Y

\* bzl.Rule.SetAttr
SetAttr(call, k, val) ==
    IF AttrDefn(call, k) = Nil
    THEN [call EXCEPT !.List = Append(@, BinaryExpr(LiteralExpr(k), "=", val))]
    ELSE LET i == CHOOSE i \in 1..Len(call.List) :
                      /\ call.List[i] = AttrDefn(call, k)
                      /\ \A j \in 1..(i - 1) : call.List[j] # AttrDefn(call, k)
         IN [call EXCEPT !.List[i].Y = val]

\* func kind
kind(c) == IF c.X.T = "literal" THEN c.X.Token ELSE ""

\* func name
name(c) == IF Attr(c, "name") = Nil THEN "" ELSE stringValue(Attr(c, "name"))

-----------------------------------------------------------------------------
(* The rule merger *)

\* var mergeableFields
mergeableFields == {"srcs", "deps", "library"}

RECURSIVE leadingArgs(_)
\* mergeRule, first loop: the arguments before the first key = value
leadingArgs(list) ==
    IF list = <<>> \/ IsAttr(Head(list)) THEN <<>>
    ELSE <<Head(list)>> \o leadingArgs(Tail(list))

\* a mergeAttr that merges every attribute, whatever its name
mergeAttrAnyName(gen, old, k) ==
    LET oldAttr == AttrDefn(old, k)
        genExpr0 == Attr(gen, k)
        m == mergeExpr(genExpr0, oldAttr.Y)
        merged == IF m.err THEN genExpr0 ELSE m.expr
    IN IF merged # Nil THEN <<[oldAttr EXCEPT !.Y = merged]>> ELSE <<>>

\* mergeRule, second loop, one key: the attribute it appends, if any
mergeAttr(gen, old, k) ==
    LET oldAttr == AttrDefn(old, k)
        genExpr0 == Attr(gen, k)
        m == mergeExpr(genExpr0, oldAttr.Y)
        merged == IF m.err THEN genExpr0 ELSE m.expr
    IN IF k \notin mergeableFields THEN <<oldAttr>>
       ELSE IF merged # Nil THEN <<[oldAttr EXCEPT !.Y = merged]>>
       ELSE <<>>

RECURSIVE mergeOldAttrs(_, _, _)
\* mergeRule, second loop
mergeOldAttrs(gen, old, keys) ==
    IF keys = <<>> THEN <<>>
    ELSE mergeAttr(gen, old, Head(keys)) \o mergeOldAttrs(gen, old, Tail(keys))

RECURSIVE mergeGenAttrs(_, _, _)
\* mergeRule, third loop
mergeGenAttrs(merged, gen, keys) ==
    IF keys = <<>> THEN merged
    ELSE mergeGenAttrs(
             IF Attr(merged, Head(keys)) = Nil
             THEN SetAttr(merged, Head(keys), Attr(gen, Head(keys)))
             ELSE merged,
             gen, Tail(keys))

\* func mergeRule
mergeRule(gen, old) ==
    mergeGenAttrs([old EXCEPT !.List = leadingArgs(old.List) \o
                       mergeOldAttrs(gen, old, AttrKeys(old))],
                  gen, AttrKeys(gen))

-----------------------------------------------------------------------------
(* The load-statement merger *)

\* a ruleUsed for which every kind of rule is in the file
ruleUsedAlways(rule, oldfile) == TRUE

\* bzl.File.Rules(kind) is not empty
ruleUsed(rule, oldfile) ==
    \E i \in 1..Len(oldfile.Stmt) :
        /\ oldfile.Stmt[i].T = "call"
        /\ (rule = "" \/ kind(oldfile.Stmt[i]) = rule)

\* mergeLoad, the vals map: its keys
loadKeys(gen, old, oldfile) ==
    LET genVals == {stringValue(gen.List[i]) : i \in 2..Len(gen.List)}
    IN genVals \cup
       {stringValue(old.List[i]) : i \in
           {j \in 2..Len(old.List) :
               /\ stringValue(old.List[j]) \notin genVals
               /\ ruleUsed(stringValue(old.List[j]), oldfile)}}

\* mergeLoad, the vals map: the expression stored under key k
loadVal(gen, old, k) ==
    IF \E i \in 2..Len(gen.List) : stringValue(gen.List[i]) = k
    THEN LET i == CHOOSE i \in 2..Len(gen.List) :
                     /\ stringValue(gen.List[i]) = k
                     /\ \A j \in (i + 1)..Len(gen.List) : stringValue(gen.List[j]) # k
         IN gen.List[i]
    ELSE LET i == CHOOSE i \in 2..Len(old.List) :
                     /\ stringValue(old.List[i]) = k
                     /\ \A j \in 2..(i - 1) : stringValue(old.List[j]) # k
         IN old.List[i]

RECURSIVE SetToSeq(_)
\* a map's keys, in some order
SetToSeq(S) ==
    IF S = {} THEN <<>>
    ELSE LET x == CHOOSE x \in S : TRUE IN <<x>> \o SetToSeq(S \ {x})

\* func mergeLoad
mergeLoad(gen, old, oldfile) ==
    LET keys == SortStrings(SetToSeq(loadKeys(gen, old, oldfile)))
    IN [old EXCEPT !.List =
           <<old.List[1]>> \o [i \in 1..Len(keys) |-> loadVal(gen, old, keys[i])]]

-----------------------------------------------------------------------------
(* The expressions, rules and loads the merger is run on *)

\* most symbols of an enumerated load statement, besides the path
MaxSyms == 2

SeqsUpTo(S, n) == UNION {[1..k -> S] : k \in 0..n}

keepWhy == keep \o <<":", " ", "x">>
todoNote == <<"#", " ", "T", "O", "D", "O">>

Str(v) == StringExpr(v, <<>>)

GenElems == {Str("a"), Str("b")}
OldElems ==
    {Str("a"), StringExpr("a", <<keep>>), StringExpr("b", <<keepWhy>>),
     StringExpr("", <<keep>>)}

GenLists == {ListExpr(l) : l \in SeqsUpTo(GenElems, MaxList)}
OldLists == {ListExpr(l) : l \in SeqsUpTo(OldElems, MaxList)}

ListA == ListExpr(<<Str("a")>>)
ListKeepB == ListExpr(<<StringExpr("b", <<keep>>)>>)
GenCases ==
    {KeyValueExpr(Str("//cfg:a"), ListA), KeyValueExpr(Str("//os:linux"), ListA),
     KeyValueExpr(Str(DefaultKey), ListExpr(<<>>)), KeyValueExpr(Str(DefaultKey), ListA)}
OldCases ==
    {KeyValueExpr(Str("//cfg:a"), ListKeepB), KeyValueExpr(Str("//os:linux"), ListA),
     KeyValueExpr(Str(DefaultKey), ListExpr(<<>>)),
     KeyValueExpr(Str(DefaultKey), ListKeepB)}
GenDicts == {DictExpr(s) : s \in SeqsUpTo(GenCases, MaxDict)}
OldDicts == {DictExpr(s) : s \in SeqsUpTo(OldCases, MaxDict)}

\* nil, a list, select(dict) or list + select(dict)
Combine(l, d) ==
    IF l = Nil THEN (IF d = Nil THEN Nil ELSE SelectCall(d))
    ELSE IF d = Nil THEN l
    ELSE BinaryExpr(l, "+", SelectCall(d))

DictLinuxA == DictExpr(<<KeyValueExpr(Str("//os:linux"), ListA)>>)
DictUnsorted ==
    DictExpr(<<KeyValueExpr(Str(DefaultKey), ListExpr(<<>>)),
               KeyValueExpr(Str("//os:linux"), ListA),
               KeyValueExpr(Str("//cfg:a"), ListA)>>)
DictOldKeep ==
    DictExpr(<<KeyValueExpr(Str("//cfg:a"), ListKeepB),
               KeyValueExpr(Str(DefaultKey), ListExpr(<<>>))>>)
DictBadValue == DictExpr(<<KeyValueExpr(Str("//cfg:a"), Str("a"))>>)
DictBadKey == DictExpr(<<KeyValueExpr(LiteralExpr("CFG"), ListA)>>)
DictBadEntry == DictExpr(<<Str("a")>>)
Glob(arg) == CallExpr(LiteralExpr("glob"), <<arg>>)

\* expressions in none of the forms mergeExpr recognizes
OddExprs ==
    {LiteralExpr("SRCS"), Glob(ListA), SelectCall(ListA),
     CallExpr(LiteralExpr("select"), <<DictLinuxA, DictLinuxA>>),
     BinaryExpr(ListA, "-", SelectCall(DictLinuxA)),
     BinaryExpr(SelectCall(DictLinuxA), "+", ListA),
     BinaryExpr(ListA, "+", ListA),
     BinaryExpr(ListA, "+", CallExpr(LiteralExpr("select"), <<DictLinuxA, DictLinuxA>>)),
     BinaryExpr(ListA, "+", Glob(DictLinuxA)),
     BinaryExpr(ListA, "+", SelectCall(ListA))}
BadDicts == {SelectCall(DictBadValue), SelectCall(DictBadKey), SelectCall(DictBadEntry)}

GenStrings == {Str("lib")}
OldStrings == {Str("mine"), StringExpr("mine", <<keep>>), StringExpr("mine", <<todoNote, keep>>)}

GenBasics ==
    {Nil, ListA, SelectCall(DictLinuxA), SelectCall(DictUnsorted),
     Combine(ListA, DictLinuxA)}
OldBasics ==
    {ListKeepB, [ListA EXCEPT !.Suffix = <<keep>>], SelectCall(DictOldKeep),
     Combine(ListKeepB, DictOldKeep)}

GenOdd == GenStrings \cup OddExprs \cup BadDicts
OldOdd == OldStrings \cup OddExprs \cup BadDicts

\* key = value, with the comments before it
AttrExpr(k, v, before) == [BinaryExpr(LiteralExpr(k), "=", v) EXCEPT !.Before = before]

OldVals ==
    OldLists \cup OldStrings \cup OldBasics \cup {Glob(ListA), SelectCall(DictBadValue)}
GenVals == GenLists \cup GenStrings \cup GenBasics \cup {Glob(ListA)}

userNote == <<"#", " ", "m", "i", "n", "e">>

\* the existing rule: unnamed arguments, name, and srcs and visibility in some order
OldRuleOf(pos, srcs, vis) ==
    LET s == IF srcs = Nil THEN <<>> ELSE <<AttrExpr("srcs", srcs, <<userNote>>)>>
        v == <<AttrExpr("visibility", ListExpr(<<Str("//visibility:private")>>),
                        <<userNote>>)>>
    IN CallExpr(LiteralExpr("go_library"),
                pos \o <<AttrExpr("name", Str("lib"), <<>>)>> \o
                (IF vis = "none" THEN s ELSE IF vis = "first" THEN v \o s ELSE s \o v))

OldRules ==
    {OldRuleOf(<<>>, srcs, vis) :
        srcs \in OldVals \cup {Nil}, vis \in {"none", "first", "last"}}
    \cup {OldRuleOf(<<Str("github.com/example/repo")>>, srcs, "last") :
              srcs \in OldBasics \cup {Nil}}

\* the generated rule: name, then srcs, deps and visibility where there are any
GenRuleOf(srcs, deps, vis) ==
    CallExpr(LiteralExpr("go_library"),
             <<AttrExpr("name", Str("lib"), <<>>)>> \o
             (IF deps = Nil THEN <<>> ELSE <<AttrExpr("deps", deps, <<>>)>>) \o
             (IF srcs = Nil THEN <<>> ELSE <<AttrExpr("srcs", srcs, <<>>)>>) \o
             (IF vis THEN <<AttrExpr("visibility",
                                     ListExpr(<<Str("//visibility:public")>>), <<>>)>>
              ELSE <<>>))

GenRules ==
    {GenRuleOf(srcs, deps, FALSE) :
        srcs \in GenVals, deps \in {Nil, ListExpr(<<>>), ListExpr(<<Str("//d")>>)}}
    \cup {GenRuleOf(srcs, Nil, TRUE) : srcs \in GenVals}

Kinds == {"go_binary", "go_library", "go_test"}
DefBzl == "@io_bazel_rules_go//go:def.bzl"

LoadOf(path, syms) == CallExpr(LiteralExpr("load"), <<path>> \o syms)
GenLoads == {LoadOf(Str(DefBzl), s) : s \in SeqsUpTo({Str(k) : k \in Kinds}, MaxSyms)}
OldLoads ==
    {LoadOf(StringExpr(DefBzl, <<userNote>>), s) :
        s \in SeqsUpTo({StringExpr(k, <<userNote>>) : k \in Kinds}, MaxSyms)}

RuleNamed(k, n) == CallExpr(LiteralExpr(k), <<AttrExpr("name", Str(n), <<>>)>>)

\* bzl.File
File(stmt) == [Stmt |-> stmt]

-----------------------------------------------------------------------------
(* Specifications *)

NoExpr == Returned(Nil)
NoFile == File(<<>>)

ExprIdle == genExpr = Nil /\ oldExpr = Nil /\ mergedExpr = NoExpr
RuleIdle == genRule = Nil /\ oldRule = Nil /\ mergedRule = Nil
FileIdle ==
    /\ genFile = NoFile /\ existing = Nil /\ newStmt = <<>> /\ idx = 0
    /\ ret = Nil /\ merges = 0 /\ run = 0 /\ firstRet = Nil
PkgIdle == packageMap = <<>> /\ pr = Nil /\ selected = {}
WalkIdle == tree = <<>> /\ todo = <<>> /\ called = <<>> /\ walkErr = FALSE

(* mergeExpr on one pair of expressions *)

InitExpr ==
    /\ pc = "mergeExpr"
    /\ \/ \E gd \in GenDicts \cup {Nil}, ol \in {Nil, ListKeepB},
               od \in OldDicts \cup {Nil} :
                genExpr = Combine(Nil, gd) /\ oldExpr = Combine(ol, od)
       \/ \E gl \in GenLists \cup {Nil}, gd \in {Nil, DictLinuxA},
               ol \in OldLists \cup {Nil}, od \in {Nil, DictOldKeep} :
                genExpr = Combine(gl, gd) /\ oldExpr = Combine(ol, od)
       \/ genExpr \in GenOdd /\ oldExpr \in OldBasics \cup OldStrings
       \/ genExpr \in GenBasics \cup GenStrings /\ oldExpr \in OldOdd
    /\ mergedExpr = NoExpr
    /\ RuleIdle /\ oldFile = NoFile /\ FileIdle /\ PkgIdle /\ WalkIdle

MergeExpr ==
    /\ pc = "mergeExpr"
    /\ mergedExpr' = mergeExpr(genExpr, oldExpr)
    /\ pc' = "done"
    /\ UNCHANGED <<genExpr, oldExpr, ruleVars, oldFile, fileVars, pkgVars, walkVars>>

NextExpr == MergeExpr

SpecExpr == InitExpr /\ [][NextExpr]_vars

(* mergeRule on one pair of rules of the same kind and name *)

InitRule ==
    /\ pc = "mergeRule"
    /\ genRule \in GenRules
    /\ oldRule \in OldRules
    /\ mergedRule = Nil
    /\ ExprIdle /\ oldFile = NoFile /\ FileIdle /\ PkgIdle /\ WalkIdle

MergeRule ==
    /\ pc = "mergeRule"
    /\ mergedRule' = mergeRule(genRule, oldRule)
    /\ pc' = "done"
    /\ UNCHANGED <<genRule, oldRule, exprVars, oldFile, fileVars, pkgVars, walkVars>>

NextRule == MergeRule

SpecRule == InitRule /\ [][NextRule]_vars

(* mergeLoad on one pair of load statements of the same path *)

InitLoad ==
    /\ pc = "mergeLoad"
    /\ genRule \in GenLoads
    /\ oldRule \in OldLoads
    /\ \E used \in SUBSET Kinds :
           oldFile = File(<<oldRule>> \o
                          [i \in 1..Cardinality(used) |->
                              RuleNamed(SetToSeq(used)[i], "x")])
    /\ mergedRule = Nil
    /\ ExprIdle /\ FileIdle /\ PkgIdle /\ WalkIdle

MergeLoad ==
    /\ pc = "mergeLoad"
    /\ mergedRule' = mergeLoad(genRule, oldRule, oldFile)
    /\ pc' = "done"
    /\ UNCHANGED <<genRule, oldRule, exprVars, oldFile, fileVars, pkgVars, walkVars>>

NextLoad == MergeLoad

SpecLoad == InitLoad /\ [][NextLoad]_vars

-----------------------------------------------------------------------------
(* The file merger *)

\* s.Comment().Before and s.Comment().After
BeforeOf(s) == IF "Before" \in DOMAIN s THEN s.Before ELSE <<>>
AfterOf(s) == IF "After" \in DOMAIN s THEN s.After ELSE <<>>

\* a shouldIgnore that reads only the comments before a statement
shouldIgnoreBefore(file) ==
    \E i \in 1..Len(file.Stmt) :
        \E j \in 1..Len(BeforeOf(file.Stmt[i])) :
            HasPrefix(BeforeOf(file.Stmt[i])[j], gazelleIgnore)

\* func shouldIgnore
shouldIgnore(file) ==
    \E i \in 1..Len(file.Stmt) :
        \/ \E j \in 1..Len(AfterOf(file.Stmt[i])) :
               HasPrefix(AfterOf(file.Stmt[i])[j], gazelleIgnore)
        \/ \E j \in 1..Len(BeforeOf(file.Stmt[i])) :
               HasPrefix(BeforeOf(file.Stmt[i])[j], gazelleIgnore)

\* func (m *nameMatcher) match
nameMatch(c, other) == kind(c) = kind(other) /\ name(c) = name(other)

\* func (m *loadMatcher) match
loadMatch(c, other) ==
    /\ kind(other) = "load"
    /\ Len(other.List) > 0
    /\ stringValue(c.List[1]) = stringValue(other.List[1])

\* whether statement i of f is the call that c's matcher accepts
Matches(f, c, i) ==
    /\ f.Stmt[i].T = "call"
    /\ IF kind(c) = "load" THEN loadMatch(c, f.Stmt[i]) ELSE nameMatch(c, f.Stmt[i])

\* a match that returns the last matching statement of f
matchLast(f, c) ==
    IF kind(c) = "load" /\ Len(c.List) = 0 THEN 0
    ELSE IF \E i \in 1..Len(f.Stmt) : Matches(f, c, i)
    THEN CHOOSE i \in 1..Len(f.Stmt) :
             Matches(f, c, i) /\ \A j \in (i + 1)..Len(f.Stmt) : ~Matches(f, c, j)
    ELSE 0

\* func match: the index of the first matching statement of f, 0 for none
match(f, c) ==
    IF kind(c) = "load" /\ Len(c.List) = 0 THEN 0
    ELSE IF \E i \in 1..Len(f.Stmt) : Matches(f, c, i)
    THEN CHOOSE i \in 1..Len(f.Stmt) :
             Matches(f, c, i) /\ \A j \in 1..(i - 1) : ~Matches(f, c, j)
    ELSE 0

\* MergeWithExisting, loop body: the merged form of old statement i
mergedStmt(genStmt, f, i) ==
    IF kind(f.Stmt[i]) = "load"
    THEN mergeLoad(genStmt, f.Stmt[i], f)
    ELSE mergeRule(genStmt, f.Stmt[i])

\* most statements of an enumerated file
MaxStmts == 2

\* a statement that is no call
DocString(before, after) ==
    [T |-> "string", Value |-> "doc", Suffix |-> <<>>, Before |-> before, After |-> after]

ignoreWhy == gazelleIgnore \o <<" ", "m", "e">>
quotedIgnore == <<"#", " ", "n", "o", "t", " ">> \o gazelleIgnore

GenStmts ==
    {LoadOf(Str(DefBzl), <<Str("go_library")>>),
     CallExpr(LiteralExpr("go_library"),
              <<AttrExpr("name", Str("lib"), <<>>),
                AttrExpr("deps", ListExpr(<<>>), <<>>),
                AttrExpr("srcs", ListExpr(<<Str("b")>>), <<>>)>>),
     CallExpr(LiteralExpr("go_test"),
              <<AttrExpr("name", Str("lib_test"), <<>>),
                AttrExpr("srcs", SelectCall(DictUnsorted), <<>>)>>)}

OldStmts ==
    {LoadOf(Str(DefBzl), <<Str("go_binary"), Str("go_test")>>),
     CallExpr(LiteralExpr("go_library"),
              <<AttrExpr("name", Str("lib"), <<>>),
                AttrExpr("srcs", ListKeepB, <<>>),
                AttrExpr("visibility", ListExpr(<<Str("//visibility:private")>>),
                         <<userNote>>)>>),
     [RuleNamed("go_binary", "cmd") EXCEPT !.Before = <<quotedIgnore>>],
     [RuleNamed("go_binary", "cmd") EXCEPT !.Before = <<userNote, gazelleIgnore>>],
     DocString(<<>>, <<ignoreWhy>>),
     DocString(<<userNote>>, <<>>)}

\* ioutil.ReadFile or bzl.Parse failed
Unreadable == [T |-> "error", Stmt |-> <<>>]

InitFile ==
    /\ pc = "read"
    /\ genFile \in {File(s) : s \in SeqsUpTo(GenStmts, MaxStmts)}
    /\ existing \in {File(s) : s \in SeqsUpTo(OldStmts, MaxStmts)} \cup {Unreadable}
    /\ oldFile = NoFile
    /\ newStmt = <<>> /\ idx = 0 /\ ret = Nil /\ merges = 0
    /\ run = 1 /\ firstRet = Nil
    /\ ExprIdle /\ RuleIdle /\ PkgIdle /\ WalkIdle

\* MergeWithExisting up to its loop: read, parse, look for the ignore comment
ReadExisting ==
    /\ pc = "read"
    /\ IF existing = Unreadable
       THEN /\ pc' = "done"
            /\ UNCHANGED oldFile
       ELSE /\ oldFile' = existing
            /\ pc' = IF shouldIgnore(existing) THEN "done" ELSE "loop"
    /\ ret' = Nil
    /\ newStmt' = <<>> /\ idx' = 0 /\ merges' = 0
    /\ UNCHANGED <<genFile, existing, run, firstRet, exprVars, ruleVars, pkgVars, walkVars>>

\* MergeWithExisting, one turn of the loop over genFile.Stmt
MergeStmt ==
    /\ pc = "loop"
    /\ idx < Len(genFile.Stmt)
    /\ LET genStmt == genFile.Stmt[idx + 1]
           i == match(oldFile, genStmt)
       IN IF i = 0
          THEN /\ newStmt' = Append(newStmt, genStmt)
               /\ UNCHANGED <<oldFile, merges>>
          ELSE /\ oldFile' = [oldFile EXCEPT !.Stmt[i] = mergedStmt(genStmt, oldFile, i)]
               /\ merges' = merges + 1
               /\ UNCHANGED newStmt
    /\ idx' = idx + 1
    /\ UNCHANGED <<pc, genFile, existing, ret, run, firstRet,
                   exprVars, ruleVars, pkgVars, walkVars>>

\* MergeWithExisting after its loop
ReturnMerged ==
    /\ pc = "loop"
    /\ idx = Len(genFile.Stmt)
    /\ oldFile' = [oldFile EXCEPT !.Stmt = oldFile.Stmt \o newStmt]
    /\ ret' = oldFile'
    /\ pc' = "done"
    /\ UNCHANGED <<genFile, existing, newStmt, idx, merges, run, firstRet,
                   exprVars, ruleVars, pkgVars, walkVars>>

\* the merged file is written, and the same generated file is merged with it
MergeAgain ==
    /\ pc = "done"
    /\ run = 1
    /\ ret # Nil
    /\ firstRet' = ret
    /\ existing' = ret
    /\ run' = 2
    /\ pc' = "read"
    /\ UNCHANGED <<genFile, oldFile, newStmt, idx, ret, merges,
                   exprVars, ruleVars, pkgVars, walkVars>>

Next == ReadExisting \/ MergeStmt \/ ReturnMerged \/ MergeAgain

Spec == InitFile /\ [][Next]_vars

-----------------------------------------------------------------------------
(* Package selection *)

\* most .go files of an enumerated package
MaxFiles == 2

\* path.Base of a slash-separated path given by its elements; slashes says
\* whether a path without elements is made of slashes ("/") or is empty ("")
Base(p) ==
    IF p.elems = <<>> THEN (IF p.slashes THEN "/" ELSE ".")
    ELSE p.elems[Len(p.elems)]

Path(elems) == [elems |-> elems, slashes |-> FALSE]

\* Package.HasGo
HasGo(pkg) == Len(pkg.GoFiles) > 0

\* Package.firstGoFile
firstGoFile(pkg) == pkg.GoFiles[1]

\* func (pr *packageReader) defaultPackageName
defaultPackageName(reader) ==
    IF reader.dir # reader.repoRoot THEN Base(reader.dir)
    ELSE IF Base(reader.goPrefix) = "." \/ Base(reader.goPrefix) = "/" THEN "unnamed"
    ELSE Base(reader.goPrefix)

NoGoError(dir) == [type |-> "NoGoError", Dir |-> dir, Packages |-> <<>>, Files |-> <<>>]
MultiplePackageError(dir, packages, files) ==
    [type |-> "MultiplePackageError", Dir |-> dir, Packages |-> packages, Files |-> files]
Selected(pkg, err) == [pkg |-> pkg, err |-> err]

\* a selectPackage that returns the first package the range comes to
selectPackageFirst(reader, pkgMap, order) ==
    LET withGo == {n \in DOMAIN pkgMap : HasGo(pkgMap[n])}
    IN IF withGo = {} THEN Selected(Nil, NoGoError(reader.dir))
       ELSE Selected(pkgMap[order[1]], Nil)

\* func (pr *packageReader) selectPackage; order is the order in which the
\* last loop ranges over packagesWithGo
selectPackage(reader, pkgMap, order) ==
    LET packagesWithGo == {n \in DOMAIN pkgMap : HasGo(pkgMap[n])}
    IN IF Cardinality(packagesWithGo) = 0
       THEN Selected(Nil, NoGoError(reader.dir))
       ELSE IF Cardinality(packagesWithGo) = 1
       THEN Selected(pkgMap[CHOOSE n \in packagesWithGo : TRUE], Nil)
       ELSE IF defaultPackageName(reader) \in packagesWithGo
       THEN Selected(pkgMap[defaultPackageName(reader)], Nil)
       ELSE Selected(Nil,
                MultiplePackageError(reader.dir,
                    order,
                    [i \in 1..Len(order) |-> firstGoFile(pkgMap[order[i]])]))

\* the orders in which a range over the keys S can go
Orders(S) ==
    {o \in [1..Cardinality(S) -> S] : \A i, j \in 1..Cardinality(S) : i # j => o[i] # o[j]}

PackageNames == {"foo", "bar", "unnamed"}
RepoRoot == Path(<<"repo">>)
Dirs == {RepoRoot, Path(<<"repo", "bar">>), Path(<<"repo", "baz">>)}
GoPrefixes ==
    {Path(<<>>), [elems |-> <<>>, slashes |-> TRUE],
     Path(<<"example.com", "bar">>), Path(<<"example.com", "baz">>)}

GoFile(pkgName, n) == [package |-> pkgName, file |-> n]

\* the Package findPackage makes for the files of one package name
PackageOf(dir, pkgName, nFiles) ==
    [Name |-> pkgName, Dir |-> dir, GoFiles |-> [i \in 1..nFiles |-> GoFile(pkgName, i)]]

InitPkg ==
    /\ pc = "selectPackage"
    /\ pr \in [dir : Dirs, repoRoot : {RepoRoot}, goPrefix : GoPrefixes]
    /\ \E names \in SUBSET PackageNames :
       \E files \in [names -> 0..MaxFiles] :
           packageMap = [n \in names |-> PackageOf(pr.dir, n, files[n])]
    /\ selected = {}
    /\ ExprIdle /\ RuleIdle /\ oldFile = NoFile /\ FileIdle /\ WalkIdle

\* one call of selectPackage on the directory's packages
SelectPackage ==
    /\ pc = "selectPackage"
    /\ \E order \in Orders({n \in DOMAIN packageMap : HasGo(packageMap[n])}) :
           selected' = selected \cup {selectPackage(pr, packageMap, order)}
    /\ UNCHANGED <<pc, packageMap, pr, exprVars, ruleVars, oldFile, fileVars, walkVars>>

NextPkg == SelectPackage

SpecPkg == InitPkg /\ [][NextPkg]_vars

-----------------------------------------------------------------------------
(* The directory walker *)

\* most files and directories of an enumerated tree, dir included
MaxNodes == 3

dot == <<".">>
dotGit == <<".", "g", "i", "t">>
testdata == <<"t", "e", "s", "t", "d", "a", "t", "a">>
lib == <<"l", "i", "b">>

\* one file or directory: its base name, what os.Lstat and the listing of it
\* give, and what FindPackage returns for it ("pkg": a package, "nogo": nil
\* for no buildable source, "error": nil after a logged error)
Node(base, isDir, lstatErr, readErr, found) ==
    [base |-> base, isDir |-> isDir, lstatErr |-> lstatErr, readErr |-> readErr,
     found |-> found]

NodeKinds ==
    {Node(lib, TRUE, FALSE, FALSE, "pkg"), Node(lib, TRUE, FALSE, FALSE, "nogo"),
     Node(lib, TRUE, FALSE, FALSE, "error"), Node(dotGit, TRUE, FALSE, FALSE, "pkg"),
     Node(testdata, TRUE, FALSE, FALSE, "pkg"), Node(lib, FALSE, FALSE, FALSE, "nogo"),
     Node(lib, TRUE, TRUE, FALSE, "pkg"), Node(lib, TRUE, FALSE, TRUE, "error")}
RootKinds == NodeKinds \cup {Node(dot, TRUE, FALSE, FALSE, "pkg")}

\* the parents of the n nodes of a tree: 0 for node 1, which is dir, and for
\* another node a node before it
ParentMaps(n) ==
    {p \in [1..n -> 0..(n - 1)] : p[1] = 0 /\ \A i \in 2..n : p[i] \in 1..(i - 1)}

\* the entries of directory n, in the order of their names
children(t, n) ==
    LET Is(i) == t[i].parent = n
    IN SelectSeq([i \in 1..Len(t) |-> i], Is)

skipName(base) == base = <<>> \/ base[1] = "." \/ base = testdata

\* Walk, the function given to filepath.Walk: what it returns for a path
walkFn(node, err) ==
    IF err THEN "err"
    ELSE IF ~node.isDir THEN "nil"
    ELSE IF skipName(node.base) THEN "SkipDir"
    ELSE "nil"

\* Walk, the function given to filepath.Walk: whether it calls f for a path
callsF(node, err) ==
    /\ ~err
    /\ node.isDir
    /\ ~skipName(node.base)
    /\ node.found = "pkg"

InitWalk ==
    /\ pc = "walk"
    /\ \E n \in 1..MaxNodes :
       \E p \in ParentMaps(n) :
       \E k \in [1..n -> RootKinds] :
           /\ \A i \in 2..n : k[i] \in NodeKinds /\ k[p[i]].isDir
           /\ tree = [i \in 1..n |-> [node |-> k[i], parent |-> p[i]]]
    /\ todo = <<1>>
    /\ called = <<>>
    /\ walkErr = FALSE
    /\ ExprIdle /\ RuleIdle /\ oldFile = NoFile /\ FileIdle /\ PkgIdle

\* filepath.Walk comes to the next path: it calls the function, and again with
\* the error when the directory cannot be listed; an error returned ends the walk
Visit ==
    /\ pc = "walk"
    /\ todo # <<>>
    /\ LET n == Head(todo)
           node == tree[n].node
           first == walkFn(node, node.lstatErr)
           listed == first = "nil" /\ node.isDir
           second == IF listed /\ node.readErr THEN walkFn(node, TRUE) ELSE "nil"
       IN /\ called' = IF callsF(node, node.lstatErr) THEN Append(called, n) ELSE called
          /\ IF first = "err" \/ second = "err"
             THEN todo' = <<>> /\ walkErr' = TRUE
             ELSE /\ todo' = (IF listed THEN children(tree, n) ELSE <<>>) \o Tail(todo)
                  /\ UNCHANGED walkErr
    /\ UNCHANGED <<pc, tree, exprVars, ruleVars, oldFile, fileVars, pkgVars>>

\* filepath.Walk returns, and Walk logs its error
WalkReturns ==
    /\ pc = "walk"
    /\ todo = <<>>
    /\ pc' = "done"
    /\ UNCHANGED <<tree, todo, called, walkErr,
                   exprVars, ruleVars, oldFile, fileVars, pkgVars>>

NextWalk == Visit \/ WalkReturns

SpecWalk == InitWalk /\ [][NextWalk]_vars

-----------------------------------------------------------------------------
(* Properties of the file merger (Spec) *)

\* a comment that begins with the ignore marker
IgnoreComment(c) ==
    /\ Len(c) >= Len(gazelleIgnore)
    /\ \A i \in 1..Len(gazelleIgnore) : c[i] = gazelleIgnore[i]

\* some top-level statement has the ignore marker before or after it
IgnoreMarked(file) ==
    \E i \in 1..Len(file.Stmt) :
        \E c \in {BeforeOf(file.Stmt[i])[j] : j \in 1..Len(BeforeOf(file.Stmt[i]))}
             \cup {AfterOf(file.Stmt[i])[j] : j \in 1..Len(AfterOf(file.Stmt[i]))} :
            IgnoreComment(c)

\* what identifies a statement for merging: the load path, or the kind and name
Identity(s) ==
    IF s.T # "call" THEN <<"none">>
    ELSE IF s.X.Token = "load"
    THEN (IF Len(s.List) = 0 THEN <<"none">> ELSE <<"load", s.List[1].Value>>)
    ELSE <<"rule", s.X.Token,
           IF \E i \in 1..Len(s.List) :
                  s.List[i].T = "binary" /\ s.List[i].X.Token = "name"
                      /\ s.List[i].Y.T = "string"
           THEN (CHOOSE a \in {s.List[i] : i \in 1..Len(s.List)} :
                     a.T = "binary" /\ a.X.Token = "name").Y.Value
           ELSE "">>

\* the existing statement a generated statement is matched with, 0 for none
MatchOf(file, g) ==
    LET same == {i \in 1..Len(file.Stmt) :
                     Identity(g) # <<"none">> /\ Identity(file.Stmt[i]) = Identity(g)}
    IN IF same = {} THEN 0 ELSE CHOOSE i \in same : \A j \in same : i <= j

RECURSIVE MergedForm(_, _, _, _)
\* existing statement i merged with the generated statements matched with it, in turn
MergedForm(file, gens, i, s) ==
    IF gens = <<>> THEN s
    ELSE MergedForm(file, Tail(gens), i,
             IF MatchOf(file, Head(gens)) # i THEN s
             ELSE IF s.X.Token = "load"
             THEN mergeLoad(Head(gens), s, [file EXCEPT !.Stmt[i] = s])
             ELSE mergeRule(Head(gens), s))

\* C1 (as claimed): merging the generated file with the output of its own merge
\* returns that output again, statement for statement and attribute for attribute.
C1_MergeIdempotent ==
    (pc = "done" /\ run = 2 /\ ret # Nil) => ret = firstRet

\* C9: the returned statements are the existing ones in their order, each one that
\* a generated statement matches (the first existing statement of its kind and
\* name, or of its load path) replaced in place by its merged form and the others
\* unchanged, followed by the unmatched generated statements in their order.
C9_StatementOrder ==
    (pc = "done" /\ ret # Nil) =>
        LET n == Len(existing.Stmt)
            Unmatched(g) == MatchOf(existing, g) = 0
            appended == SelectSeq(genFile.Stmt, Unmatched)
        IN /\ Len(ret.Stmt) = n + Len(appended)
           /\ \A i \in 1..n :
                  ret.Stmt[i] = MergedForm(existing, genFile.Stmt, i, existing.Stmt[i])
           /\ \A i \in 1..n :
                  (\A j \in 1..Len(genFile.Stmt) : MatchOf(existing, genFile.Stmt[j]) # i)
                      => ret.Stmt[i] = existing.Stmt[i]
           /\ \A i \in 1..n : Identity(ret.Stmt[i]) = Identity(existing.Stmt[i])
           /\ SubSeq(ret.Stmt, n + 1, Len(ret.Stmt)) = appended

\* C9 witness: a merge with a replaced, an untouched and an appended statement
C9_Witness ==
    /\ pc = "done" /\ ret # Nil /\ run = 1
    /\ Len(ret.Stmt) > Len(existing.Stmt)
    /\ \E i \in 1..Len(existing.Stmt) : ret.Stmt[i] # existing.Stmt[i]
    /\ \E i \in 1..Len(existing.Stmt) :
           \A j \in 1..Len(genFile.Stmt) : MatchOf(existing, genFile.Stmt[j]) # i

\* C10: an ignore comment before or after any top-level statement makes
\* MergeWithExisting return nil without merging anything; without one, a file
\* that parses gives a merged file.
C10_IgnoreSentinel ==
    /\ (pc # "read" /\ existing # Unreadable /\ IgnoreMarked(existing)) =>
           (pc = "done" /\ ret = Nil /\ merges = 0 /\ oldFile = existing /\ newStmt = <<>>)
    /\ (pc = "done" /\ existing # Unreadable /\ ~IgnoreMarked(existing)) => ret # Nil

\* C10 witness: an ignored file whose statements the generated file matches
C10_Witness ==
    /\ pc = "done" /\ existing # Unreadable /\ IgnoreMarked(existing) /\ ret = Nil
    /\ \E j \in 1..Len(genFile.Stmt) : MatchOf(existing, genFile.Stmt[j]) # 0

-----------------------------------------------------------------------------
(* Properties of the rule merger (SpecRule) *)

\* the first suffix comment of e begins with "# keep"
KeepMarked(e) ==
    /\ "Suffix" \in DOMAIN e
    /\ e.Suffix # <<>>
    /\ Len(e.Suffix[1]) >= Len(keep)
    /\ \A i \in 1..Len(keep) : e.Suffix[1][i] = keep[i]

\* the value of the first attribute k of a rule, Nil when it has none
ValueOf(rule, k) ==
    LET at == {i \in 1..Len(rule.List) :
                  /\ rule.List[i].T = "binary"
                  /\ rule.List[i].Op = "="
                  /\ rule.List[i].X.Token = k}
    IN IF at = {} THEN Nil ELSE rule.List[CHOOSE i \in at : \A j \in at : i <= j].Y

IsSelectCall(e) ==
    /\ e.T = "call"
    /\ e.X.Token = "select"
    /\ Len(e.List) = 1
    /\ e.List[1].T = "dict"

IsListPlusSelect(e) ==
    /\ e.T = "binary"
    /\ e.Op = "+"
    /\ e.X.T = "list"
    /\ IsSelectCall(e.Y)

\* nil, a list, select(dict) or list + select(dict)
MergeableShape(e) ==
    e = Nil \/ e.T = "list" \/ IsSelectCall(e) \/ IsListPlusSelect(e)

\* the elements of the list of a list or of list + select(dict)
ListPart(e) ==
    IF e.T = "list" THEN e.List
    ELSE IF IsListPlusSelect(e) THEN e.X.List
    ELSE <<>>

\* the dictionary of select(dict) or of list + select(dict), Nil without one
DictPart(e) ==
    IF e = Nil THEN Nil
    ELSE IF IsSelectCall(e) THEN e.List[1]
    ELSE IF IsListPlusSelect(e) THEN e.Y.List[1]
    ELSE Nil

RECURSIVE IsSubseq(_, _)
\* a's elements are found in b in a's order
IsSubseq(a, b) ==
    IF a = <<>> THEN TRUE
    ELSE IF b = <<>> THEN FALSE
    ELSE IF Head(a) = Head(b) THEN IsSubseq(Tail(a), Tail(b))
    ELSE IsSubseq(a, Tail(b))

\* the kept elements of an existing list are in the merged attribute, in order
KeptSurvive(k) ==
    LET keptOld == SelectSeq(ValueOf(oldRule, k).List, KeepMarked)
    IN keptOld # <<>> =>
           /\ ValueOf(mergedRule, k) # Nil
           /\ IsSubseq(keptOld, ListPart(ValueOf(mergedRule, k)))

\* C2 (as claimed): whatever is generated for a mergeable attribute (nothing, a
\* string, a list, a select, list + select, an unrecognized shape), the "# keep"
\* elements of the existing list are in the merged attribute, in their order.
C2_KeepAnyGenerated ==
    pc = "done" =>
        \A k \in mergeableFields :
            ValueOf(oldRule, k).T = "list" => KeptSurvive(k)

\* C2 (amended): when what is generated for a mergeable attribute is nothing, a
\* list, a select or list + select, the "# keep" elements of the existing list
\* are in the merged attribute, in their order.
C2_KeepPreserved ==
    pc = "done" =>
        \A k \in mergeableFields :
            (ValueOf(oldRule, k).T = "list" /\ MergeableShape(ValueOf(genRule, k)))
                => KeptSurvive(k)

\* C2 witness: two kept elements meet a generated select that has neither
C2_Witness ==
    /\ pc = "done"
    /\ ValueOf(oldRule, "srcs").T = "list"
    /\ Len(SelectSeq(ValueOf(oldRule, "srcs").List, KeepMarked)) = 2
    /\ IsSelectCall(ValueOf(genRule, "srcs"))
    /\ IsListPlusSelect(ValueOf(mergedRule, "srcs"))

\* C3 (as claimed): a mergeable attribute whose existing value is a string with
\* "# keep" has that string in the merged rule, whatever is generated for it.
C3_StringKeepWins ==
    pc = "done" =>
        \A k \in mergeableFields :
            (ValueOf(oldRule, k).T = "string" /\ KeepMarked(ValueOf(oldRule, k)))
                => ValueOf(mergedRule, k) = ValueOf(oldRule, k)

-----------------------------------------------------------------------------
(* Properties of the expression merger (SpecExpr) *)

WellFormedDict(d) ==
    d = Nil \/ \A i \in 1..Len(d.List) :
                   /\ d.List[i].T = "keyvalue"
                   /\ d.List[i].Key.T = "string"
                   /\ d.List[i].Value.T = "list"

KeysOf(d) == IF d = Nil THEN <<>> ELSE [i \in 1..Len(d.List) |-> d.List[i].Key.Value]
KeySet(d) == {KeysOf(d)[i] : i \in 1..Len(KeysOf(d))}

\* the byte-wise order of the condition labels
LabelBefore(a, b) ==
    \E i, j \in 1..Len(Lexicon) : i < j /\ Lexicon[i] = a /\ Lexicon[j] = b

\* the default case is last, and the other keys ascend strictly
DefaultLastKeysAscending(d) ==
    LET keys == KeysOf(d)
    IN /\ \A i \in 1..Len(keys) : keys[i] = "//conditions:default" => i = Len(keys)
       /\ \A i, j \in 1..Len(keys) :
              (i < j /\ keys[j] # "//conditions:default") => LabelBefore(keys[i], keys[j])

\* a merge of select dictionaries (or none) that succeeded
DictsMerged ==
    /\ pc = "done"
    /\ MergeableShape(genExpr) /\ MergeableShape(oldExpr)
    /\ WellFormedDict(DictPart(genExpr)) /\ WellFormedDict(DictPart(oldExpr))
    /\ ~mergedExpr.err

-----------------------------------------------------------------------------
(* Properties of the load merger (SpecLoad) *)

SymbolsOf(load) == [i \in 1..(Len(load.List) - 1) |-> load.List[i + 1].Value]
SymbolSet(load) == {SymbolsOf(load)[i] : i \in 1..Len(SymbolsOf(load))}

\* the existing file has a rule of kind k
HasRuleOfKind(file, k) ==
    \E i \in 1..Len(file.Stmt) : file.Stmt[i].T = "call" /\ file.Stmt[i].X.Token = k

\* C5: the merged load has the existing path and, ascending and without
\* duplicates, the generated symbols and the existing symbols that are not
\* generated and whose kind of rule the existing file has.
C5_LoadSymbols ==
    pc = "done" =>
        /\ mergedRule.List[1] = oldRule.List[1]
        /\ SymbolSet(mergedRule) =
               SymbolSet(genRule) \cup
               {k \in SymbolSet(oldRule) \ SymbolSet(genRule) : HasRuleOfKind(oldFile, k)}
        /\ \A i, j \in 1..Len(SymbolsOf(mergedRule)) :
               i < j => LabelBefore(SymbolsOf(mergedRule)[i], SymbolsOf(mergedRule)[j])

\* C5 witness: of two existing symbols that are not generated, the file uses one
C5_Witness ==
    /\ pc = "done"
    /\ \E k \in SymbolSet(oldRule) \ SymbolSet(genRule) :
           HasRuleOfKind(oldFile, k) /\ k \in SymbolSet(mergedRule)
    /\ \E k \in SymbolSet(oldRule) \ SymbolSet(genRule) :
           ~HasRuleOfKind(oldFile, k) /\ k \notin SymbolSet(mergedRule)
    /\ Len(SymbolsOf(genRule)) = 2
    /\ SymbolsOf(genRule)[1] = SymbolsOf(genRule)[2]

-----------------------------------------------------------------------------
(* Properties of package selection (SpecPkg) *)

\* the names of the directory's packages that have a .go file
NamesWithGo == {n \in DOMAIN packageMap : packageMap[n].GoFiles # <<>>}

\* the default package name of the directory: its last element, and for the
\* repository root the last element of the prefix, "unnamed" when it has none
DirDefaultName ==
    IF pr.dir = pr.repoRoot
    THEN (IF pr.goPrefix.elems = <<>> THEN "unnamed"
          ELSE pr.goPrefix.elems[Len(pr.goPrefix.elems)])
    ELSE pr.dir.elems[Len(pr.dir.elems)]

\* an outcome of selectPackage up to the order of the error's lists
Outcome(r) ==
    [pkg |-> r.pkg,
     err |-> IF r.err = Nil THEN "none" ELSE r.err.type,
     listed |-> IF r.err = Nil THEN {}
                ELSE {<<r.err.Packages[i], r.err.Files[i]>> : i \in 1..Len(r.err.Packages)}]

\* a multiple-packages error that lists each package with a .go file once,
\* with one of its files at the same index
ListsEachOnce(err) ==
    /\ err.type = "MultiplePackageError"
    /\ Len(err.Packages) = Cardinality(NamesWithGo)
    /\ {err.Packages[i] : i \in 1..Len(err.Packages)} = NamesWithGo
    /\ Len(err.Files) = Len(err.Packages)
    /\ \A i \in 1..Len(err.Files) :
           \E j \in 1..Len(packageMap[err.Packages[i]].GoFiles) :
               err.Files[i] = packageMap[err.Packages[i]].GoFiles[j]

\* C6: selectPackage looks only at the packages with a .go file: none gives the
\* no-Go error, one gives that package, several give the one named as the
\* directory's default package name, or else a multiple-packages error that
\* lists each of them once with one of its files at the same index; and the
\* outcome is the same (up to the order of the error's lists) in whatever order
\* the map is ranged over.
C6_SelectionPolicy ==
    /\ \A r \in selected :
           IF NamesWithGo = {}
           THEN r.pkg = Nil /\ r.err # Nil /\ r.err.type = "NoGoError"
           ELSE IF Cardinality(NamesWithGo) = 1
           THEN r.err = Nil /\ \A n \in NamesWithGo : r.pkg = packageMap[n]
           ELSE IF DirDefaultName \in NamesWithGo
           THEN r.err = Nil /\ r.pkg = packageMap[DirDefaultName]
           ELSE r.pkg = Nil /\ r.err # Nil /\ ListsEachOnce(r.err)
    /\ \A r1, r2 \in selected : Outcome(r1) = Outcome(r2)

\* C6 witness: packages foo and bar of a directory baz have been ranged over in
\* both orders, and both times the error lists the two
C6_Witness ==
    /\ NamesWithGo = {"foo", "bar"}
    /\ pr.dir = Path(<<"repo", "baz">>)
    /\ Cardinality(selected) = 2
    /\ \A r \in selected : r.err # Nil /\ Len(r.err.Packages) = 2

-----------------------------------------------------------------------------
(* Properties of the walker (SpecWalk) *)

RECURSIVE Above(_, _)
\* the directories above node n of a tree
Above(t, n) ==
    IF t[n].parent = 0 THEN {} ELSE {t[n].parent} \cup Above(t, t[n].parent)

DotOrTestdata(base) == (base # <<>> /\ Head(base) = ".") \/ base = testdata

IOFails(node) == node.lstatErr \/ node.readErr

\* the directories of the tree that resolve to a package
PackageDirs == {n \in 1..Len(tree) : tree[n].node.isDir /\ tree[n].node.found = "pkg"}

CalledSet == {called[i] : i \in 1..Len(called)}

\* C7 (as claimed): after the walk, the callback has been invoked for every
\* directory that resolves to a package, has no I/O error, and is neither
\* skipped by name nor below a directory that is skipped or has an I/O error,
\* however many other directories have I/O errors or fail to resolve.
C7_ErrorsDoNotAbort ==
    pc = "done" =>
        \A n \in PackageDirs :
            (/\ ~IOFails(tree[n].node)
             /\ \A a \in Above(tree, n) \cup {n} : ~DotOrTestdata(tree[a].node.base)
             /\ \A a \in Above(tree, n) : ~IOFails(tree[a].node))
                => n \in CalledSet

\* C8 (as claimed): after a walk without I/O errors, the callback has been
\* invoked exactly once for each directory that resolves to a package and is
\* neither skipped by name nor below a skipped directory, and for no other;
\* a directory below dir is skipped by name when its name starts with "." or is
\* "testdata", and so is dir when it is named "testdata", not when it is ".".
C8_VisitingContract ==
    (pc = "done" /\ \A n \in 1..Len(tree) : ~IOFails(tree[n].node)) =>
        LET skipped == {n \in 1..Len(tree) :
                           /\ DotOrTestdata(tree[n].node.base)
                           /\ ~(n = 1 /\ tree[n].node.base = dot)}
            expected == {n \in PackageDirs :
                            \A a \in Above(tree, n) \cup {n} : a \notin skipped}
        IN /\ CalledSet = expected
           /\ \A i, j \in 1..Len(called) : i # j => called[i] # called[j]

-----------------------------------------------------------------------------
(* Properties of the list merge (SpecExpr) *)

\* e has a list: it is a list or list + select(dict)
HasListPart(e) == e.T = "list" \/ IsListPlusSelect(e)

\* the string of an element, "" for what is not a string
ValueOfElem(v) == IF v.T = "string" THEN v.Value ELSE ""

\* the kept elements of the existing list, then the generated elements whose
\* value is not the value of a kept element
KeptThenGenerated(gen, old) ==
    LET kept == SelectSeq(ListPart(old), KeepMarked)
        IsNew(v) == \A i \in 1..Len(kept) : ValueOfElem(kept[i]) # ValueOfElem(v)
    IN kept \o SelectSeq(ListPart(gen), IsNew)

\* a merge of lists (or none), with or without select dictionaries, that succeeded
ListsMerged ==
    /\ pc = "done"
    /\ MergeableShape(genExpr) /\ MergeableShape(oldExpr)
    /\ ~mergedExpr.err

\* C11 (as claimed): for every generated list (or none) and existing list (or
\* none), the merged list is the kept existing elements in their order followed
\* by the generated elements, in their order and not de-duplicated, whose value
\* is not the value of a kept element; and there is no merged list at all when
\* that sequence is empty.
C11_ListMergeResult ==
    ListsMerged =>
        LET expected == KeptThenGenerated(genExpr, oldExpr)
        IN IF expected = <<>>
           THEN ~HasListPart(mergedExpr.expr)
           ELSE HasListPart(mergedExpr.expr) /\ ListPart(mergedExpr.expr) = expected

-----------------------------------------------------------------------------
(* Properties of the rule frame (SpecRule) *)

IsKeyValue(a) == a.T = "binary" /\ a.Op = "="

\* the arguments of a rule before its first key = value
LeadingOf(rule) ==
    LET n == IF \E i \in 1..Len(rule.List) : IsKeyValue(rule.List[i])
             THEN (CHOOSE i \in 1..Len(rule.List) :
                       /\ IsKeyValue(rule.List[i])
                       /\ \A j \in 1..(i - 1) : ~IsKeyValue(rule.List[j])) - 1
             ELSE Len(rule.List)
    IN SubSeq(rule.List, 1, n)

\* the names of the key = value arguments of a list of arguments, in order
NamesOf(list) ==
    LET attrs == SelectSeq(list, IsKeyValue)
    IN [i \in 1..Len(attrs) |-> attrs[i].X.Token]

NameSet(list) == {NamesOf(list)[i] : i \in 1..Len(NamesOf(list))}

\* the merged arguments are the leading arguments of old, then up to position n
\* what was taken from old, then what was taken from gen
FramedAt(n) ==
    LET lead == LeadingOf(oldRule)
        m == mergedRule.List
        fromOld == SubSeq(m, Len(lead) + 1, n)
        fromGen == SubSeq(m, n + 1, Len(m))
    IN /\ SubSeq(m, 1, Len(lead)) = lead
       /\ IsSubseq(NamesOf(fromOld), NamesOf(oldRule.List))
       /\ Len(NamesOf(fromOld)) = Len(fromOld)
       /\ \A i \in 1..Len(oldRule.List) :
              (IsKeyValue(oldRule.List[i])
                  /\ oldRule.List[i].X.Token \notin {"srcs", "deps", "library"})
                  => \E j \in 1..Len(fromOld) : fromOld[j] = oldRule.List[i]
       /\ \A j \in 1..Len(fromGen) :
              /\ IsKeyValue(fromGen[j])
              /\ fromGen[j].Y = ValueOf(genRule, fromGen[j].X.Token)
       /\ NameSet(genRule.List) \ NameSet(oldRule.List) \subseteq NameSet(fromGen)

\* C12: the merged rule begins with the leading unnamed arguments of old,
\* unchanged; then come the attributes taken from old in their order in old,
\* among them every attribute of old that is not srcs, deps or library with its
\* existing value and comments, whatever gen has of that name; the attributes
\* that only gen has come after all of those.
C12_RuleFrame ==
    pc = "done" =>
        \E n \in Len(LeadingOf(oldRule))..Len(mergedRule.List) : FramedAt(n)

\* C12 witness: old has an unnamed argument and its own visibility and no srcs,
\* gen has another visibility and srcs
C12_Witness ==
    /\ pc = "done"
    /\ LeadingOf(oldRule) # <<>>
    /\ ValueOf(oldRule, "visibility") # Nil
    /\ ValueOf(genRule, "visibility") # Nil
    /\ ValueOf(genRule, "visibility") # ValueOf(oldRule, "visibility")
    /\ ValueOf(oldRule, "srcs") = Nil
    /\ NamesOf(mergedRule.List) = <<"name", "visibility", "srcs">>

-----------------------------------------------------------------------------
(* Properties of an attribute whose merge is empty (SpecRule) *)

\* the positions of the attributes named k in a rule
PositionsOf(rule, k) ==
    {i \in 1..Len(rule.List) : IsKeyValue(rule.List[i]) /\ rule.List[i].X.Token = k}

\* attribute k is in the merged rule once, with the comments it has in old and
\* value v, on the same side of every attribute of old that is not merged
AtExistingPosition(k, v) ==
    /\ Cardinality(PositionsOf(mergedRule, k)) = 1
    /\ \A i \in PositionsOf(mergedRule, k), o \in PositionsOf(oldRule, k) :
           /\ mergedRule.List[i] = [oldRule.List[o] EXCEPT !.Y = v]
           /\ \A k2 \in NameSet(oldRule.List) \ {"srcs", "deps", "library"} :
                  \A i2 \in PositionsOf(mergedRule, k2), o2 \in PositionsOf(oldRule, k2) :
                      (i < i2) = (o < o2)

\* C13 (as claimed): for srcs, deps or library on the existing rule, when
\* mergeExpr of the generated and the existing value succeeds with nil the
\* merged rule has no attribute of that name, and when it succeeds with a
\* value the merged rule has the attribute once, where old has it, with that
\* value; also when the generated rule has the attribute.
C13_EmptyMergeOmitted ==
    pc = "done" =>
        \A k \in {"srcs", "deps", "library"} :
            (PositionsOf(oldRule, k) # {}
                /\ ~mergeExpr(ValueOf(genRule, k), ValueOf(oldRule, k)).err) =>
                LET v == mergeExpr(ValueOf(genRule, k), ValueOf(oldRule, k)).expr
                IN IF v = Nil THEN PositionsOf(mergedRule, k) = {}
                   ELSE AtExistingPosition(k, v)

-----------------------------------------------------------------------------
(* Properties of the shape of a merged expression (SpecExpr) *)

\* mergeExpr has returned without error for a generated expression that is not
\* a string
MergedNotString ==
    pc = "done" /\ genExpr.T # "string" /\ ~mergedExpr.err

\* C14: when the generated expression is not a string and mergeExpr returns
\* without error, the result is nil, a list, select(dict) or list + select(dict)
\* with the list on the left, which exprListAndDict accepts as the existing side
\* of the next merge; and it is list + select(dict) only when the merged list and
\* the merged dictionary are both not nil.
C14_ShapeClosure ==
    MergedNotString =>
        /\ MergeableShape(mergedExpr.expr)
        /\ ~exprListAndDict(mergedExpr.expr).err
        /\ mergedExpr.expr.T = "binary" =>
               /\ IsListPlusSelect(mergedExpr.expr)
               /\ mergeList(exprListAndDict(genExpr).list,
                            exprListAndDict(oldExpr).list) # Nil
               /\ mergeDict(exprListAndDict(genExpr).dict,
                            exprListAndDict(oldExpr).dict).expr # Nil

\* C14 witness: a generated list and an existing select with a kept element are
\* merged into list + select(dict)
C14_Witness ==
    /\ MergedNotString
    /\ genExpr.T = "list" /\ genExpr.List # <<>>
    /\ IsSelectCall(oldExpr)
    /\ IsListPlusSelect(mergedExpr.expr)

====
